---- MODULE Spec2Model ----
(***************************************************************************)
(* A model of rawspeed's HuffmanTableTree (decompressors/HuffmanTableTree.h)*)
(* : construction of the canonical Huffman tree from the code-length       *)
(* histogram and the value list (setup), the bit-by-bit lookup (getValue)   *)
(* and the two value interpretations (decodeLength / decodeNext).           *)
(*                                                                         *)
(* BinaryHuffmanTree, AbstractHuffmanTable and the bit stream are included  *)
(* by the header but their sources are not part of the files at hand; they  *)
(* are modelled from the specification's sections 3, 4.1, 4.2, 4.5 and 6.   *)
(***************************************************************************)
EXTENDS Integers, Sequences, FiniteSets, TLC

----------------------------------------------------------------------------
(* Bounds of the model *)

\* longest code length of the exhaustively enumerated histograms
MaxLen == 2
\* largest per-length count of the exhaustively enumerated histograms
MaxCount == 3
\* longest explicit prefix of an enumerated bit stream (the rest is padding)
MaxPrefix == 5
\* number of decode calls each of two concurrent threads makes
MaxCalls == 2
\* longest explicit prefix of a bit stream of two concurrent threads
MaxConcPrefix == 2
\* bits held by a bit source beyond the 32 the first fill needs
StreamSlack == 8
\* largest symbol value of the enumerated value lists (a byte in the code)
MaxSymbol == 17

(* Program constants *)

\* assert(partial.code_len <= 16): the longest code
MaxCodeLen == 16
\* bs.fill(32)
FillBits == 32
\* if (diff_l == 16) ... bs.skipBitsNoFill(16)
Sentinel == 16
\* the width of int, in which the difference and 1 << len are computed
IntBits == 32

Bit == {0, 1}

RECURSIVE Pow2(_)
Pow2(n) == IF n = 0 THEN 1 ELSE 2 * Pow2(n - 1)

RECURSIVE SumSeq(_)
SumSeq(s) == IF s = <<>> THEN 0 ELSE Head(s) + SumSeq(Tail(s))

\* n copies of x
Rep(x, n) == [i \in 1..n |-> x]

IsPrefix(p, q) == Len(p) <= Len(q) /\ SubSeq(q, 1, Len(p)) = p

\* all bit strings of exactly n bits / of at most n bits
BitStrings(n) == [1..n -> Bit]
BitStringsUpTo(n) == UNION {BitStrings(k) : k \in 0..n}

----------------------------------------------------------------------------
(* BinaryHuffmanTree<ValueType>: a map from paths (bit strings, the root is *)
(* the empty path) to nodes; an absent slot is a path outside the domain.   *)

Branch == [type |-> "Branch", value |-> 0]
Leaf(v) == [type |-> "Leaf", value |-> v]

\* a default-constructed tree: root is a null pointer
EmptyTree == [p \in {} |-> Branch]

IsNode(t, p) == p \in DOMAIN t
IsLeaf(t, p) == p \in DOMAIN t /\ t[p].type = "Leaf"
IsBranch(t, p) == p \in DOMAIN t /\ t[p].type = "Branch"

\* *slot = node
Put(t, p, node) == (p :> node) @@ t

RECURSIVE PutAll(_, _, _)
PutAll(t, ps, node) ==
  IF ps = <<>> THEN t ELSE PutAll(Put(t, Head(ps), node), Tail(ps), node)

RECURSIVE ChildSlots(_)
\* the zero and one slots of each branch of a list, left to right
ChildSlots(bs) ==
  IF bs = <<>> THEN <<>>
  ELSE <<Append(Head(bs), 0), Append(Head(bs), 1)>> \o ChildSlots(Tail(bs))

\* one level down from the branches prev.branches of prev.tree: their child
\* slots that hold no leaf, the absent ones among them made branches
childBranches(prev) ==
  IF prev.branches = <<>> THEN prev
  ELSE LET slots == ChildSlots(prev.branches)
           NotLeaf(p) == ~IsLeaf(prev.tree, p)
           Absent(p) == ~IsNode(prev.tree, p)
       IN [tree |-> PutAll(prev.tree, SelectSeq(slots, Absent), Branch),
           branches |-> SelectSeq(slots, NotLeaf)]

RECURSIVE getAllBranchesOfDepth(_, _)
\* the branches at a depth, left to right; slots on the way that are still
\* absent become branches (the root is always a branch)
getAllBranchesOfDepth(t, depth) ==
  IF depth = 0
  THEN [tree |-> IF IsNode(t, <<>>) THEN t ELSE Put(t, <<>>, Branch),
        branches |-> << <<>> >>]
  ELSE childBranches(getAllBranchesOfDepth(t, depth - 1))

\* the vacant slots at a depth, zero before one, left to right
getAllVacantNodesAtDepth(t, depth) ==
  LET prev == getAllBranchesOfDepth(t, depth - 1)
      Vacant(p) == ~IsNode(prev.tree, p)
  IN [tree |-> prev.tree,
      nodes |-> SelectSeq(ChildSlots(prev.branches), Vacant)]

\* does the subtree at p hold a leaf
hasLeafs(t, p) == \E q \in DOMAIN t : IsPrefix(p, q) /\ t[q].type = "Leaf"

\* every branch whose subtree holds no leaf becomes absent
pruneLeaflessBranches(t) ==
  LET keep == {p \in DOMAIN t : hasLeafs(t, p)}
  IN [p \in keep |-> t[p]]

----------------------------------------------------------------------------
(* AbstractHuffmanTable *)

\* nCodesPerLength is indexed by code length, from 0: entry L is h[L + 1]
Size(h) == Len(h)
NCodes(h, L) == h[L + 1]

\* the total number of codes
maxCodesCount(h) == SumSeq(h)

\* sign extension of a len-bit difference (lossless JPEG)
extend(diff, len) ==
  IF diff < Pow2(len - 1) THEN diff - (Pow2(len) - 1) ELSE diff

----------------------------------------------------------------------------
(* ArwDecoder::DecodeARW, the difference of one sample: the len bits read   *)
(* as diff, then  if (len && (diff & (1 << (len - 1))) == 0)                *)
(*                    diff -= (1 << len) - 1;                               *)

\* diff & (1 << k), as a truth value
TestBit(diff, k) == (diff \div Pow2(k)) % 2 = 1

DecodeARWDiff(diff, len) ==
  IF len # 0 /\ ~TestBit(diff, len - 1) THEN diff - (Pow2(len) - 1) ELSE diff

----------------------------------------------------------------------------
(* The bit source (BitPumpMSB and friends): the bits of the buffer, the     *)
(* number consumed, and the number of bits the last fill left guaranteed.   *)

RECURSIVE BitsValue(_, _, _)
\* the n bits after pos, most significant first, as an unsigned number
BitsValue(bits, pos, n) ==
  IF n = 0 THEN 0
  ELSE 2 * BitsValue(bits, pos, n - 1) + bits[pos + n]

\* can fill(n) meet its guarantee
canFill(b, n) == Len(b.bits) - b.pos >= n

\* fill(n): at least n bits are buffered afterwards
fill(b, n) == [b EXCEPT !.avail = IF @ < n THEN n ELSE @]

\* getBitsNoFill(n) / skipBitsNoFill(n): n bits are consumed, unchecked
peekBits(b, n) == BitsValue(b.bits, b.pos, n)
skipBitsNoFill(b, n) == [b EXCEPT !.pos = @ + n, !.avail = @ - n]

----------------------------------------------------------------------------
(* HuffmanTableTree::setup *)

\* setupPreconditions without its third assertion
setupPreconditionsNoSize(h, vals) ==
  /\ Size(h) # 0
  /\ maxCodesCount(h) > 0

\* assert(!nCodesPerLength.empty()); assert(maxCodesCount() > 0);
\* assert(codeValues.size() == maxCodesCount());
setupPreconditions(h, vals) ==
  /\ Size(h) # 0
  /\ maxCodesCount(h) > 0
  /\ Len(vals) = maxCodesCount(h)

\* tooManyCodes with <= for <
tooManyCodesOffByOne(nVacant, nCodesForCurrLen) == nVacant <= nCodesForCurrLen

\* if (nodes.size() < nCodesForCurrLen) ThrowRDE(...)
tooManyCodes(nVacant, nCodesForCurrLen) == nVacant < nCodesForCurrLen

\* *currValue: a read past the end of codeValues is undefined; oob[k] is
\* what the read of the k-th element past the end yields (-1: the process
\* crashes), each such read being of another address
Deref(vals, cur, oob) ==
  IF cur <= Len(vals) THEN vals[cur] ELSE oob[cur - Len(vals)]

\* one of the reads of the elements cur .. cur + n - 1 crashes
derefCrashes(vals, cur, n, oob) ==
  \E k \in cur..(cur + n - 1) : k > Len(vals) /\ oob[k - Len(vals)] = -1

RECURSIVE placeLeafsNoAdvance(_, _, _, _, _, _)
\* placeLeafs without std::advance(currValue, 1)
placeLeafsNoAdvance(t, nodes, n, vals, cur, oob) ==
  IF n = 0 THEN t
  ELSE placeLeafsNoAdvance(Put(t, Head(nodes), Leaf(Deref(vals, cur, oob))),
                           Tail(nodes), n - 1, vals, cur, oob)

RECURSIVE placeLeafs(_, _, _, _, _, _)
\* std::for_each over the first n vacant nodes: each becomes a Leaf holding
\* *currValue, and currValue advances
placeLeafs(t, nodes, n, vals, cur, oob) ==
  IF n = 0 THEN t
  ELSE placeLeafs(Put(t, Head(nodes), Leaf(Deref(vals, cur, oob))),
                  Tail(nodes), n - 1, vals, cur + 1, oob)

RECURSIVE setupLoop(_, _, _, _, _, _)
\* for (codeLen = 1; codeLen < nCodesPerLength.size(); codeLen++)
setupLoop(t, h, vals, codeLen, cur, oob) ==
  IF ~(codeLen < Size(h))
  THEN [status |-> "end", tree |-> t, currValue |-> cur, codeLen |-> codeLen]
  ELSE LET n == NCodes(h, codeLen)
           r == getAllVacantNodesAtDepth(t, codeLen)
       IN IF tooManyCodes(Len(r.nodes), n)
          THEN [status |-> "throw", tree |-> r.tree, currValue |-> cur,
                codeLen |-> codeLen]
          ELSE IF derefCrashes(vals, cur, n, oob)
          THEN [status |-> "crash", tree |-> r.tree, currValue |-> cur,
                codeLen |-> codeLen]
          ELSE setupLoop(placeLeafs(r.tree, r.nodes, n, vals, cur, oob),
                         h, vals, codeLen + 1, cur + n, oob)

\* setup without the call of pruneLeaflessBranches
setupNoPrune(t, h, vals, asserts, oob) ==
  IF asserts /\ ~setupPreconditions(h, vals)
  THEN [status |-> "abort", tree |-> t, codeLen |-> 0]
  ELSE LET r == setupLoop(t, h, vals, 1, 1, oob)
       IN IF r.status # "end"
          THEN [status |-> r.status, tree |-> r.tree, codeLen |-> r.codeLen]
          ELSE IF asserts /\ r.currValue # Len(vals) + 1
          THEN [status |-> "abort", tree |-> r.tree, codeLen |-> r.codeLen]
          ELSE [status |-> "ok", tree |-> r.tree, codeLen |-> r.codeLen]

\* the body of setup after the flags are stored; asserts tells whether the
\* build keeps assert() (it is compiled out under NDEBUG)
setup(t, h, vals, asserts, oob) ==
  IF asserts /\ ~setupPreconditions(h, vals)
  THEN [status |-> "abort", tree |-> t, codeLen |-> 0]
  ELSE LET r == setupLoop(t, h, vals, 1, 1, oob)
       IN IF r.status # "end"
          THEN [status |-> r.status, tree |-> r.tree, codeLen |-> r.codeLen]
          ELSE IF asserts /\ r.currValue # Len(vals) + 1
          THEN [status |-> "abort", tree |-> r.tree, codeLen |-> r.codeLen]
          ELSE [status |-> "ok", tree |-> pruneLeaflessBranches(r.tree),
                codeLen |-> r.codeLen]

----------------------------------------------------------------------------
(* State *)

VARIABLES
  nCodesPerLength, \* the code-length histogram (AbstractHuffmanTable)
  codeValues,      \* the symbol value list (AbstractHuffmanTable)
  tree,            \* BinaryHuffmanTree<ValueType> tree
  fullDecode,      \* bool fullDecode = true
  fixDNGBug16,     \* bool fixDNGBug16 = false
  engine,          \* "unconfigured", "configured", or how setup ended
  args,            \* the arguments <<fullDecode_, fixDNGBug16_>> of setup
  assertsOn,       \* whether the build keeps assert() (no NDEBUG)
  threads,         \* the decoding threads
  maxCalls,        \* the number of decode calls each thread makes
  sources,         \* the bit streams on offer: [prefix, deep]
  bs,              \* per thread: its bit source
  pc,              \* per thread: "idle", "getValue" or "decode"
  partial,         \* per thread: CodeSymbol partial of getValue
  top,             \* per thread: the branch getValue stands on
  codeValue,       \* per thread: the symbol getValue returned
  start,           \* per thread: the bit position at which its call began
  fullCall,        \* per thread: the FULL_DECODE of its call
  results          \* per thread: the outcomes of its finished calls

vars == <<nCodesPerLength, codeValues, tree, fullDecode, fixDNGBug16, engine,
          args, assertsOn, threads, maxCalls, sources, bs, pc, partial, top,
          codeValue, start, fullCall, results>>

inputs == <<nCodesPerLength, codeValues, args, assertsOn, threads, maxCalls,
            sources>>
shared == <<tree, fullDecode, fixDNGBug16, engine>>

----------------------------------------------------------------------------
(* Inputs *)

\* every histogram of at most n lengths with entry 0 unused (0) and at
\* most c codes per length; the empty histogram is among them
Histograms(n, c) ==
  {<<>>} \cup
  UNION {{<<0>> \o h : h \in [1..k -> 0..c]} : k \in 0..n}

\* one code of each length 1..n: leaves 0, 10, 110, ...
Comb(n) == <<0>> \o Rep(1, n)

\* the complete comb: two codes of the last length
FullComb(n) == <<0>> \o Rep(1, n - 1) \o <<2>>

\* n symbols in increasing order from base, wrapping after MaxSymbol: the
\* values are bytes parsed from the file, and setup takes them as they are
ValueList(base, n) == [i \in 1..n |-> (base + i - 1) % (MaxSymbol + 1)]

\* the bits of a source: a prefix, then padding with one bit
Stream(prefix, pad) ==
  prefix \o Rep(pad, FillBits + StreamSlack - Len(prefix))

Streams(n) == {Stream(p, b) : p \in BitStringsUpTo(n), b \in Bit}

\* k ones, a zero, then padding: the walk down the comb
DeepStreams == {Stream(Rep(1, k) \o <<0>>, b) : k \in 6..(MaxCodeLen - 1), b \in Bit}

\* what one read of *currValue past the end of codeValues yields: a crash
\* (-1) or whatever byte lies there
OobReads == {-1} \cup 0..255

\* what the reads past the end yield, one after the other: as many as the
\* value list is short of the histogram total (none when it is not)
OobReadsOf(h, vals) ==
  IF Len(vals) >= maxCodesCount(h) THEN {<<>>}
  ELSE [1..(maxCodesCount(h) - Len(vals)) -> OobReads]

\* what the lookup through a null tree.root yields: a crash (-1) or some
\* value
WildReads == {-1, 0, 7}

\* the streams a thread may be handed for its first call
Sources ==
  Streams(sources.prefix) \cup (IF sources.deep THEN DeepStreams ELSE {})

\* a thread's bit source before its first call: nothing attached
NoSource == [bits |-> <<>>, pos |-> 0, avail |-> 0]

InitWith(hists, bases, deltas, asserts, flags, ths, calls, src) ==
  /\ nCodesPerLength \in hists
  /\ \E base \in bases, d \in deltas :
       /\ maxCodesCount(nCodesPerLength) + d >= 0
       /\ codeValues = ValueList(base, maxCodesCount(nCodesPerLength) + d)
  /\ assertsOn \in asserts
  /\ args \in flags
  /\ tree = EmptyTree
  /\ fullDecode = TRUE
  /\ fixDNGBug16 = FALSE
  /\ engine = "unconfigured"
  /\ threads = ths
  /\ maxCalls = calls
  /\ sources = src
  /\ bs = [t \in ths |-> NoSource]
  /\ pc = [t \in ths |-> "idle"]
  /\ partial = [t \in ths |-> [code |-> 0, code_len |-> 0]]
  /\ top = [t \in ths |-> <<>>]
  /\ codeValue = [t \in ths |-> 0]
  /\ start = [t \in ths |-> 0]
  /\ fullCall = [t \in ths |-> TRUE]
  /\ results = [t \in ths |-> <<>>]

\* the tables whose value list is also tried one short in a build without
\* assertions, where the leaf read past the end holds any byte
ShortListTables == {<<0, 1>>, <<0, 2>>, <<0, 0, 2>>, <<0, 1, 3>>}

\* tables of every shape, well-formed or not, in both builds
Init ==
  \/ InitWith(Histograms(MaxLen, MaxCount)
                \cup {Comb(MaxCodeLen), FullComb(MaxCodeLen)},
              {0}, {0, 1}, BOOLEAN,
              {<<TRUE, FALSE>>, <<FALSE, FALSE>>}, {1}, 1,
              [prefix |-> MaxLen + 1, deep |-> TRUE])
  \/ InitWith(Histograms(MaxLen, MaxCount)
                \cup {Comb(MaxCodeLen), FullComb(MaxCodeLen)},
              {0}, {-1}, {TRUE},
              {<<TRUE, FALSE>>, <<FALSE, FALSE>>}, {1}, 1,
              [prefix |-> MaxLen + 1, deep |-> TRUE])
  \/ InitWith(ShortListTables, {0}, {-1}, {FALSE},
              {<<TRUE, FALSE>>, <<FALSE, FALSE>>}, {1}, 1,
              [prefix |-> MaxLen + 1, deep |-> FALSE])

\* well-formed tables holding every symbol 0..MaxSymbol, every flag
\* combination
InitDecode ==
  InitWith({<<0, 2>>, <<0, 1, 1>>, Comb(MaxCodeLen), FullComb(MaxCodeLen)},
           0..MaxSymbol, {0}, {TRUE}, BOOLEAN \X BOOLEAN, {1}, 1,
           [prefix |-> MaxPrefix, deep |-> TRUE])

\* two threads sharing one engine
InitConc ==
  InitWith({<<0, 1, 1>>, <<0, 0, 3>>}, {0, 15}, {0}, {TRUE},
           {<<TRUE, TRUE>>, <<FALSE, FALSE>>}, {1, 2}, MaxCalls,
           [prefix |-> MaxConcPrefix, deep |-> FALSE])

----------------------------------------------------------------------------
(* Actions *)

\* setup(fullDecode_, fixDNGBug16_), called once
Setup ==
  /\ engine = "unconfigured"
  /\ \E oob \in OobReadsOf(nCodesPerLength, codeValues) :
       LET r == setup(tree, nCodesPerLength, codeValues, assertsOn, oob)
       IN /\ tree' = r.tree
          /\ engine' = IF r.status = "ok" THEN "configured" ELSE r.status
  /\ fullDecode' = args[1]
  /\ fixDNGBug16' = args[2]
  /\ UNCHANGED <<inputs, bs, pc, partial, top, codeValue, start, fullCall,
                 results>>

----------------------------------------------------------------------------
(* HuffmanTableTree::getValue and decode, as functions of the tree, the     *)
(* flags and the bit source                                                 *)

\* newNode with the children swapped: bit ? top->zero : top->one
newNodeOneFirst(topPath, bit) == Append(topPath, 1 - bit)

\* const auto& newNode = !bit ? top->zero : top->one;
newNode(topPath, bit) == Append(topPath, bit)

\* shiftIn without the shift: partial.code |= bit alone
shiftInNoShift(code, bit) == IF code % 2 = 1 THEN code ELSE code + bit

\* partial.code <<= 1; partial.code |= bit;  (code is a 16-bit unsigned)
shiftIn(code, bit) == ((2 * code) % Pow2(16)) + bit

\* one turn of the loop of getValue, standing on the branch topPath with
\* the code read so far in part; asserts as for setup
getValueIter(t, b, topPath, part, asserts) ==
  IF ~IsBranch(t, topPath)
  THEN \* tree.root is null: the dereference is undefined
       [kind |-> "undefined", bs |-> b, partial |-> part, top |-> topPath,
        value |-> 0]
  ELSE IF asserts /\ ~(part.code_len <= MaxCodeLen)
  THEN [kind |-> "abort", bs |-> b, partial |-> part, top |-> topPath,
        value |-> 0]
  ELSE LET bit == peekBits(b, 1)
           b1 == skipBitsNoFill(b, 1)
           p1 == [part EXCEPT !.code = shiftIn(@, bit)]
           n == newNode(topPath, bit)
       IN IF ~IsNode(t, n)
          THEN \* ThrowRDE("bad Huffman code: %u (len: %u)")
               [kind |-> "badcode", bs |-> b1, partial |-> p1,
                top |-> topPath, value |-> 0]
          ELSE IF IsLeaf(t, n)
          THEN \* return newNode->getAsLeaf().value
               [kind |-> "leaf", bs |-> b1, partial |-> p1, top |-> topPath,
                value |-> t[n].value]
          ELSE \* top = &(newNode->getAsBranch()); ++partial.code_len
               [kind |-> "branch", bs |-> b1,
                partial |-> [p1 EXCEPT !.code_len = @ + 1], top |-> n,
                value |-> 0]

\* initialPartial with the length counted from 0
initialPartialFromZero == [code |-> 0, code_len |-> 0]

\* partial.code = 0, partial.code_len = 1: the start of the loop
initialPartial == [code |-> 0, code_len |-> 1]

RECURSIVE getValueLoop(_, _, _, _, _)
getValueLoop(t, b, topPath, part, asserts) ==
  LET r == getValueIter(t, b, topPath, part, asserts)
  IN IF r.kind = "branch"
     THEN getValueLoop(t, r.bs, r.top, r.partial, asserts)
     ELSE r

\* for (partial.code = 0, partial.code_len = 1;; ++partial.code_len)
getValue(t, b, asserts) ==
  getValueLoop(t, b, <<>>, initialPartial, asserts)

\* trailingBits with the 16 bits skipped whatever fixDNGBug16 says
trailingBitsAlwaysSkip(full, fix, diff_l) ==
  IF ~full THEN 0
  ELSE IF diff_l = Sentinel THEN 16
  ELSE diff_l

\* trailingBits reading a bit even for the symbol 0
trailingBitsAtLeastOne(full, fix, diff_l) ==
  IF ~full THEN 0
  ELSE IF diff_l = Sentinel THEN (IF fix THEN 16 ELSE 0)
  ELSE IF diff_l = 0 THEN 1
  ELSE diff_l

\* the number of bits decode consumes after the code, for symbol diff_l
trailingBits(full, fix, diff_l) ==
  IF ~full THEN 0
  ELSE IF diff_l = Sentinel THEN (IF fix THEN 16 ELSE 0)
  ELSE diff_l

\* decodeValue without the call of extend
decodeValueNoExtend(full, diff_l, b) ==
  IF ~full THEN diff_l
  ELSE IF diff_l = Sentinel THEN -32768
  ELSE IF diff_l # 0 THEN peekBits(b, diff_l)
  ELSE 0

\* what decode returns for symbol diff_l when the bits after the code are b
decodeValue(full, diff_l, b) ==
  IF ~full THEN diff_l
  ELSE IF diff_l = Sentinel THEN -32768
  ELSE IF diff_l # 0 THEN extend(peekBits(b, diff_l), diff_l)
  ELSE 0

\* the outcome of one call of decode<BIT_STREAM, full>, as the caller sees
\* it
Outcome(full, kind, value, symbol, part, startPos, endPos) ==
  [full |-> full, kind |-> kind, value |-> value, symbol |-> symbol,
   code |-> part.code, code_len |-> part.code_len, start |-> startPos,
   pos |-> endPos]

NoCode == [code |-> 0, code_len |-> 0]

\* assert(fullDecode) of decodeNext, assert(!fullDecode) of decodeLength and
\* assert(FULL_DECODE == fullDecode) of decode fail: the call is not of the
\* mode given to setup, and the build keeps assertions
wrongMode(full, flag, asserts) == asserts /\ full # flag

\* the end of decode for the looked-up symbol diff_l, the bit source b
\* standing after the code: the outcomes it can have, each with the bit
\* source it leaves. getBitsNoFill is unchecked: when it is asked for more
\* than the bits the fill guaranteed, or when 1 << diff_l does not fit an
\* int, the result is unspecified; it may still be the value the bits of the
\* source give, where the source holds them.
decodeOutcomes(full, fix, diff_l, b, part, startPos) ==
  LET n == trailingBits(full, fix, diff_l)
      b1 == skipBitsNoFill(b, n)
      wide == full /\ diff_l # Sentinel /\ diff_l > IntBits - 2
      val == {[out |-> Outcome(full, "value", decodeValue(full, diff_l, b),
                               diff_l, part, startPos, b1.pos),
               bs |-> b1]}
      any == {[out |-> Outcome(full, "unspecified", 0, diff_l, part, startPos,
                               b1.pos),
               bs |-> b1]}
  IN IF n <= b.avail /\ ~wide THEN val
     ELSE IF b.pos + n <= Len(b.bits) /\ ~wide THEN val \cup any
     ELSE any

\* how a lookup that ended without a symbol ends the call
lookupOutcomes(full, g, startPos) ==
  IF g.kind = "undefined"
  THEN {Outcome(full, IF u = -1 THEN "crash" ELSE "undefined", u, 0,
                g.partial, startPos, g.bs.pos) : u \in WildReads}
  ELSE {Outcome(full, g.kind, 0, 0, g.partial, startPos, g.bs.pos)}

\* decodeNext (full) or decodeLength (not full), that is
\* decode<BIT_STREAM, full>(bs), run to its end on an engine set up with
\* fullDecode = flag: the outcomes it can have, each with the bit source it
\* leaves
decode(t, full, flag, fix, b0, asserts) ==
  IF wrongMode(full, flag, asserts)
  THEN {[out |-> Outcome(full, "wrongmode", 0, 0, NoCode, b0.pos, b0.pos),
         bs |-> b0]}
  ELSE IF ~canFill(b0, FillBits)
  THEN {[out |-> Outcome(full, "eof", 0, 0, NoCode, b0.pos, b0.pos),
         bs |-> b0]}
  ELSE LET g == getValue(t, fill(b0, FillBits), asserts)
       IN IF g.kind # "leaf"
          THEN {[out |-> o, bs |-> g.bs] :
                  o \in lookupOutcomes(full, g, b0.pos)}
          ELSE decodeOutcomes(full, fix, g.value, g.bs, g.partial, b0.pos)

----------------------------------------------------------------------------
(* The decode calls of the threads, one step at a time *)

\* no call has ended the process: a failed assertion aborts it and a crash
\* kills it, with all its threads
Alive ==
  \A t \in threads : \A k \in 1..Len(results[t]) :
    results[t][k].kind \notin {"abort", "wrongmode", "crash"}

\* the entry of decode<BIT_STREAM, full> on bit source b: the assertion on
\* the mode, bs.fill(32), then getValue takes the root
decodeOn(t, full, b) ==
  /\ start' = [start EXCEPT ![t] = b.pos]
  /\ fullCall' = [fullCall EXCEPT ![t] = full]
  /\ partial' = [partial EXCEPT ![t] = initialPartial]
  /\ codeValue' = [codeValue EXCEPT ![t] = 0]
  /\ top' = [top EXCEPT ![t] = <<>>]
  /\ IF wrongMode(full, fullDecode, assertsOn)
     THEN \* the assertion fails: the process aborts
          /\ results' = [results EXCEPT ![t] =
                           Append(@, Outcome(full, "wrongmode", 0, 0, NoCode,
                                             b.pos, b.pos))]
          /\ bs' = [bs EXCEPT ![t] = b]
          /\ UNCHANGED pc
     ELSE IF ~canFill(b, FillBits)
     THEN \* the data is exhausted: fill fails
          /\ results' = [results EXCEPT ![t] =
                           Append(@, Outcome(full, "eof", 0, 0, NoCode,
                                             b.pos, b.pos))]
          /\ bs' = [bs EXCEPT ![t] = b]
          /\ UNCHANGED pc
     ELSE /\ bs' = [bs EXCEPT ![t] = fill(b, FillBits)]
          /\ pc' = [pc EXCEPT ![t] = "getValue"]
          /\ UNCHANGED results

\* a call of decode<BIT_STREAM, full> by thread t: its first call is handed
\* a bit source, the later ones go on where the last one stopped
decodeEntry(t, full) ==
  /\ engine = "configured"
  /\ Alive
  /\ pc[t] = "idle"
  /\ Len(results[t]) < maxCalls
  /\ IF bs[t] = NoSource
     THEN \E bits \in Sources :
            decodeOn(t, full, [NoSource EXCEPT !.bits = bits])
     ELSE decodeOn(t, full, bs[t])
  /\ UNCHANGED <<inputs, shared>>

\* decodeNext(bs): assert(fullDecode); decode<BIT_STREAM, true>(bs)
decodeNext(t) == decodeEntry(t, TRUE)

\* decodeLength(bs): assert(!fullDecode); decode<BIT_STREAM, false>(bs)
decodeLength(t) == decodeEntry(t, FALSE)

\* top as one variable of all threads instead of a local
TopShared(t) == top[CHOOSE u \in threads : \A w \in threads : u <= w]

\* what the pointer top refers to in thread t (a local of getValue)
Top(t) == top[t]

\* the call of thread t ends with outcome out
Finish(t, out) ==
  /\ results' = [results EXCEPT ![t] = Append(@, out)]
  /\ pc' = [pc EXCEPT ![t] = "idle"]

\* one turn of the loop of getValue in thread t
getValueStep(t) ==
  /\ pc[t] = "getValue"
  /\ Alive
  /\ LET r == getValueIter(tree, bs[t], Top(t), partial[t], assertsOn)
     IN /\ bs' = [bs EXCEPT ![t] = r.bs]
        /\ partial' = [partial EXCEPT ![t] = r.partial]
        /\ top' = [top EXCEPT ![t] = r.top]
        /\ codeValue' = [codeValue EXCEPT ![t] = r.value]
        /\ CASE r.kind = "branch" -> UNCHANGED <<pc, results>>
             [] r.kind = "leaf" ->
                  /\ pc' = [pc EXCEPT ![t] = "decode"]
                  /\ UNCHANGED results
             [] OTHER ->
                  \E o \in lookupOutcomes(fullCall[t], r, start[t]) :
                    Finish(t, o)
  /\ UNCHANGED <<inputs, shared, start, fullCall>>

\* decode after getValue: the interpretation of the symbol
decodeTail(t) ==
  /\ pc[t] = "decode"
  /\ Alive
  /\ \E o \in decodeOutcomes(fullCall[t], fixDNGBug16, codeValue[t], bs[t],
                             partial[t], start[t]) :
       /\ bs' = [bs EXCEPT ![t] = o.bs]
       /\ Finish(t, o.out)
  /\ UNCHANGED <<inputs, shared, partial, top, codeValue, start, fullCall>>

Next ==
  \/ Setup
  \/ \E t \in threads : decodeNext(t)
  \/ \E t \in threads : decodeLength(t)
  \/ \E t \in threads : getValueStep(t)
  \/ \E t \in threads : decodeTail(t)

Spec == Init /\ [][Next]_vars
SpecDecode == InitDecode /\ [][Next]_vars
SpecConc == InitConc /\ [][Next]_vars

----------------------------------------------------------------------------
(* Properties *)

\* the pair (histogram, values) meets the data model's invariants
ValidTable ==
  /\ nCodesPerLength # <<>>
  /\ SumSeq(nCodesPerLength) > 0
  /\ Len(codeValues) = SumSeq(nCodesPerLength)

RECURSIVE VacantAt(_, _)
\* the number of nodes at depth L no shorter code covers: 2 at depth 1, and
\* twice what the codes of length L - 1 left over
VacantAt(h, L) ==
  IF L = 1 THEN 2 ELSE 2 * (VacantAt(h, L - 1) - h[L])

\* the lengths whose count exceeds the vacant nodes at that depth
Overflows(h) == {L \in 1..(Len(h) - 1) : h[L + 1] > VacantAt(h, L)}
FitsCapacity(h) == Overflows(h) = {}
FirstOverflow(h) == CHOOSE L \in Overflows(h) : \A M \in Overflows(h) : L <= M

SetupDone == engine # "unconfigured"

\* a bit source that starts with the bits p (padded with zeros), after fill
SourceOf(p) == [bits |-> Stream(p, 0), pos |-> 0, avail |-> FillBits]

\* the paths of the leaves of t
LeafPaths(t) == {p \in DOMAIN t : t[p].type = "Leaf"}

\* getValue, fed the bits p, returns value v after exactly Len(p) bits
Decodes(t, p, v) ==
  LET g == getValue(t, SourceOf(p), assertsOn)
  IN g.kind = "leaf" /\ g.value = v /\ g.bs.pos = Len(p)

\* C1: for a valid (histogram, values) pair - the value list as long as the
\* histogram total, no count above the vacant nodes of its depth - setup
\* succeeds, and every value of the list is what getValue returns for some
\* bit sequence.
C1_SetupSucceedsAllValuesReachable ==
  (SetupDone /\ ValidTable /\ FitsCapacity(nCodesPerLength)) =>
    /\ engine = "configured"
    /\ \A i \in 1..Len(codeValues) :
         \E p \in LeafPaths(tree) :
           tree[p].value = codeValues[i] /\ Decodes(tree, p, codeValues[i])

\* a table with codes of two lengths is configured and a lookup has returned
\* its last value
C1_Witness ==
  /\ engine = "configured" /\ ValidTable
  /\ Len(codeValues) >= 3
  /\ Len(nCodesPerLength) = 3 /\ nCodesPerLength[2] > 0
  /\ results[1] # <<>>
  /\ results[1][1].kind = "value"
  /\ results[1][1].symbol = codeValues[Len(codeValues)]

RECURSIVE CanonicalFrom(_, _, _)
\* the canonical Huffman codes of the lengths L and up, the first of them
\* being code: codes of one length count upwards, and the first code of the
\* next length is the next code with a zero appended
CanonicalFrom(h, L, code) ==
  IF L > Len(h) - 1 THEN <<>>
  ELSE [i \in 1..h[L + 1] |-> [code |-> code + i - 1, len |-> L]]
       \o CanonicalFrom(h, L + 1, 2 * (code + h[L + 1]))

\* the i-th entry is the canonical code of the i-th symbol
CanonicalCodes(h) == CanonicalFrom(h, 1, 0)

\* the len bits of code, most significant first
ToBits(code, len) == [k \in 1..len |-> (code \div Pow2(len - k)) % 2]

\* C2: after a successful setup the i-th value of the value list sits at the
\* i-th canonical Huffman code: getValue, fed the bits of that code (most
\* significant first, whatever follows them), returns the value after
\* exactly the code's length in bits, having accumulated that code.
C2_CanonicalRoundTrip ==
  (engine = "configured" /\ ValidTable) =>
    LET cc == CanonicalCodes(nCodesPerLength)
    IN /\ Len(cc) = Len(codeValues)
       /\ \A i \in 1..Len(codeValues) : \A pad \in Bit :
            LET g == getValue(tree,
                              [bits |-> Stream(ToBits(cc[i].code, cc[i].len), pad),
                               pos |-> 0, avail |-> FillBits], assertsOn)
            IN /\ g.kind = "leaf"
               /\ g.value = codeValues[i]
               /\ g.bs.pos = cc[i].len
               /\ g.partial = [code |-> cc[i].code, code_len |-> cc[i].len]

\* histogram {1: 0, 2: 2} with values [A, B] = [0, 1]: a call fed 01...
\* has returned B after two bits
C2_Witness ==
  /\ engine = "configured"
  /\ nCodesPerLength = <<0, 0, 2>> /\ codeValues = <<0, 1>>
  /\ results[1] # <<>>
  /\ results[1][1].kind = "value"
  /\ results[1][1].symbol = 1
  /\ results[1][1].code = 1 /\ results[1][1].code_len = 2
  /\ SubSeq(bs[1].bits, 1, 2) = <<0, 1>>

\* C3 as stated: when some length has more codes than vacant nodes, setup
\* fails with the malformed-table error and leaves no tree a lookup can
\* return a value from.
C3_Original_NoUsableTree ==
  (SetupDone /\ ValidTable /\ ~FitsCapacity(nCodesPerLength)) =>
    /\ engine = "throw"
    /\ \A p \in BitStringsUpTo(MaxLen + 1) :
         getValue(tree, SourceOf(p), assertsOn).kind # "leaf"

\* the number of codes shorter than L
CodesBelow(h, L) == SumSeq(SubSeq(h, 1, L))

\* C3, amended: setup fails with the malformed-table error exactly when some
\* length has more codes than vacant nodes; it stops at the first such
\* length L, and the leaves already placed for the shorter lengths stay in
\* the tree, each still returned by getValue at its canonical code.
C3_ThrowsKeepsShorterLeaves ==
  (SetupDone /\ ValidTable) =>
    /\ (engine = "throw") <=> ~FitsCapacity(nCodesPerLength)
    /\ (engine = "throw") =>
         LET L == FirstOverflow(nCodesPerLength)
             cc == CanonicalCodes(nCodesPerLength)
             placed == CodesBelow(nCodesPerLength, L)
         IN /\ Cardinality(LeafPaths(tree)) = placed
            /\ \A i \in 1..placed :
                 Decodes(tree, ToBits(cc[i].code, cc[i].len), codeValues[i])

\* setup has thrown at length 2 after placing a leaf of length 1
C3_Witness ==
  /\ engine = "throw" /\ ValidTable
  /\ FirstOverflow(nCodesPerLength) = 2
  /\ Cardinality(LeafPaths(tree)) >= 1

\* C4 as stated: with an empty histogram, a total of zero or a value list of
\* another size than the total, setup fails and never returns normally.
C4_Original_SetupFails ==
  (SetupDone /\ ~ValidTable) => engine \in {"throw", "abort"}

\* C4, amended: the three conditions are assertions of setup, not errors it
\* raises. A build that keeps assertions stops at the failed assertion with
\* the tree untouched. A build without them does not look at the conditions:
\* setup throws only for too many codes of some length, and otherwise
\* returns normally unless the value list is too short (an undefined read).
C4_AssertedPreconditions ==
  (SetupDone /\ ~ValidTable) =>
    IF assertsOn
    THEN engine = "abort" /\ tree = EmptyTree
    ELSE /\ engine \in {"configured", "throw", "crash"}
         /\ (engine = "throw") <=> ~FitsCapacity(nCodesPerLength)
         /\ (engine = "crash") =>
              Len(codeValues) < SumSeq(nCodesPerLength)
         /\ (Len(codeValues) > SumSeq(nCodesPerLength)
               /\ FitsCapacity(nCodesPerLength)) => engine = "configured"

\* without assertions, setup has returned normally with a tree built from a
\* value list longer than the total
C4_Witness ==
  /\ ~assertsOn /\ engine = "configured"
  /\ Len(codeValues) > SumSeq(nCodesPerLength)
  /\ LeafPaths(tree) # {}

\* C10: after setup returns, every Branch of the tree has a Leaf in its
\* subtree (so every Branch has a child), and pruning again changes nothing.
C10_PrunedAfterSetup ==
  engine = "configured" =>
    /\ \A p \in DOMAIN tree :
         tree[p].type = "Branch" =>
           /\ \E q \in LeafPaths(tree) : IsPrefix(p, q)
           /\ \E b \in Bit : Append(p, b) \in DOMAIN tree
    /\ pruneLeaflessBranches(tree) = tree

\* setup has returned for histogram {1: 0, 2: 1}: the branch 1, made while
\* the vacant nodes of depth 2 were listed, is gone
C10_Witness ==
  /\ engine = "configured"
  /\ nCodesPerLength = <<0, 0, 1>>
  /\ DOMAIN tree = {<<>>, <<0>>, <<0, 0>>}

\* the finished calls, each with the bits of its thread's source
Finished ==
  UNION {{[r |-> results[t][k], bits |-> bs[t].bits] :
            k \in 1..Len(results[t])} : t \in threads}

\* the finished calls of decodeNext that looked up a symbol
FinishedNext == {f \in Finished : f.r.full /\ f.r.kind = "value"}

\* the L bits after the code of a finished call, as an unsigned number
RawBits(f, L) == BitsValue(f.bits, f.r.start + f.r.code_len, L)

\* C5: decodeNext, for a looked-up symbol L in 1..15, reads exactly L further
\* bits as the unsigned v and returns v - (2^L - 1) if v < 2^(L-1), else v;
\* DecodeARW computes the same difference from the same bits.
C5_SignExtension ==
  \A f \in FinishedNext :
    LET L == f.r.symbol
        v == RawBits(f, L)
        expected == IF v < Pow2(L - 1) THEN v - (Pow2(L) - 1) ELSE v
    IN (1 <= L /\ L <= 15) =>
         /\ f.r.pos = f.r.start + f.r.code_len + L
         /\ f.r.value = expected
         /\ DecodeARWDiff(v, L) = expected

\* L = 4 and v = 3 have given -12
C5_Witness ==
  \E f \in FinishedNext :
    f.r.symbol = 4 /\ RawBits(f, 4) = 3 /\ f.r.value = -12

\* C6: decodeNext, for the looked-up symbol 16, returns -32768 whatever bits
\* follow, having consumed after the code exactly 16 bits with fixDNGBug16
\* and none without.
C6_Sentinel ==
  \A f \in FinishedNext :
    f.r.symbol = 16 =>
      /\ f.r.value = -32768
      /\ f.r.pos = f.r.start + f.r.code_len + (IF fixDNGBug16 THEN 16 ELSE 0)

\* the symbol 16 was looked up with fixDNGBug16 set, before bits that are
\* not all zero
C6_Witness ==
  \E f \in FinishedNext :
    /\ f.r.symbol = 16 /\ fixDNGBug16
    /\ f.r.pos = f.r.start + f.r.code_len + 16
    /\ RawBits(f, 16) # 0

\* C7: decodeNext, for the looked-up symbol 0, returns 0 and has consumed
\* the code's bits and no more.
C7_ZeroLength ==
  \A f \in FinishedNext :
    f.r.symbol = 0 =>
      /\ f.r.value = 0
      /\ f.r.pos = f.r.start + f.r.code_len

\* the symbol 0 was looked up at a two-bit code
C7_Witness ==
  \E f \in FinishedNext :
    f.r.symbol = 0 /\ f.r.code_len = 2 /\ f.r.pos = f.r.start + 2

\* no prefix of the 16 bits after position at leads to a leaf of t
NoLeafAhead(t, bits, at) ==
  \A n \in 1..MaxCodeLen : ~IsLeaf(t, SubSeq(bits, at + 1, at + n))

\* C8: on a table built by setup, getValue ends within 16 bits, returning a
\* Leaf's value or raising the bad-code error: while it runs it stands on a
\* Branch with code_len - 1 <= 15 bits read; it raises the error exactly
\* when no prefix of the next 16 bits leads to a leaf, having read code_len
\* <= 16 bits. (A call that never reaches getValue ends at the assertion on
\* its mode or at a fill that fails.)
C8_BoundedLookup ==
  (engine = "configured" /\ ValidTable) =>
    /\ \A t \in threads :
         pc[t] = "getValue" =>
           /\ 1 <= partial[t].code_len /\ partial[t].code_len <= MaxCodeLen
           /\ bs[t].pos - start[t] = partial[t].code_len - 1
           /\ IsBranch(tree, top[t])
           /\ Len(top[t]) = partial[t].code_len - 1
    /\ \A f \in Finished :
         /\ f.r.kind \in {"value", "badcode", "eof", "wrongmode"}
         /\ f.r.kind \notin {"eof", "wrongmode"} =>
              /\ 1 <= f.r.code_len /\ f.r.code_len <= MaxCodeLen
              /\ (f.r.kind = "badcode") <=> NoLeafAhead(tree, f.bits, f.r.start)
              /\ f.r.kind = "badcode" => f.r.pos = f.r.start + f.r.code_len

\* the comb of 16 codes, fed sixteen ones, has raised the bad-code error at
\* the sixteenth bit
C8_Witness ==
  \E f \in Finished :
    /\ nCodesPerLength = Comb(MaxCodeLen)
    /\ f.r.kind = "badcode" /\ f.r.code_len = MaxCodeLen
    /\ f.r.pos = f.r.start + MaxCodeLen

RECURSIVE RunCalls(_, _, _, _, _, _)
\* the decode calls of the modes fulls, one after the other on the bit
\* source b: the sequences of outcomes they can have
RunCalls(t, fulls, flag, fix, b, asserts) ==
  IF fulls = <<>> THEN {<<>>}
  ELSE UNION {{<<d>> \o rest :
                 rest \in RunCalls(t, Tail(fulls), flag, fix, d.bs, asserts)} :
              d \in decode(t, Head(fulls), flag, fix, b, asserts)}

\* C9: whatever the interleaving of the threads' steps, each thread's
\* outcomes so far, and the bit source it is left with between calls, are
\* those of running its calls alone one after the other; the tree and the
\* flags stay what setup made them.
C9_ConcurrentAsSequential ==
  engine = "configured" =>
    /\ tree = setup(EmptyTree, nCodesPerLength, codeValues, assertsOn,
                    <<>>).tree
    /\ fullDecode = args[1] /\ fixDNGBug16 = args[2]
    /\ \A t \in threads :
         bs[t] # NoSource =>
           LET n == Len(results[t])
           IN \E seq \in RunCalls(tree, [k \in 1..n |-> results[t][k].full],
                                  fullDecode, fixDNGBug16,
                                  [NoSource EXCEPT !.bits = bs[t].bits],
                                  assertsOn) :
                /\ results[t] = [k \in 1..n |-> seq[k].out]
                /\ (pc[t] = "idle" /\ n > 0) => bs[t] = seq[n].bs

\* both threads are inside the lookup of their second call, on different
\* bit sources
C9_Witness ==
  /\ threads = {1, 2}
  /\ pc[1] = "getValue" /\ pc[2] = "getValue"
  /\ Len(results[1]) = 1 /\ Len(results[2]) = 1
  /\ results[1][1].kind = "value" /\ results[2][1].kind = "value"
  /\ bs[1].bits # bs[2].bits
  /\ partial[1].code_len = 2

\* the bits a finished call consumed after its fill(32)
Consumed(f) == f.r.pos - f.r.start

\* C11: for every table setup accepts with fullDecode = true and every bit
\* sequence, one decodeNext call consumes at most 32 bits after its fill(32)
\* (the code's bits plus the trailing getBitsNoFill(L) or
\* skipBitsNoFill(16)), so no unchecked read goes past the 32 guaranteed
\* bits: the bits guaranteed to a bit source never fall below zero.
C11_Original_FillSuffices ==
  (engine = "configured" /\ ValidTable /\ fullDecode) =>
    /\ \A t \in threads : bs[t].avail >= 0
    /\ \A f \in Finished :
         f.r.full =>
           /\ f.r.kind # "unspecified"
           /\ f.r.kind = "value" => Consumed(f) <= FillBits

\* the same bound for the calls whose looked-up symbol is a length 0..16
FillSufficesForLengths ==
  (engine = "configured" /\ ValidTable /\ fullDecode) =>
    \A f \in FinishedNext :
      f.r.symbol <= Sentinel => Consumed(f) <= FillBits

\* a 16-bit code followed by the 16 skipped bits: all 32 bits are used
FillSufficesTight ==
  \E f \in FinishedNext :
    f.r.code_len = MaxCodeLen /\ f.r.symbol = Sentinel /\ Consumed(f) = FillBits

\* the codes of the table, as bit strings: the canonical codes of histogram h
CodeStrings(h) ==
  LET cc == CanonicalCodes(h)
  IN {ToBits(cc[i].code, cc[i].len) : i \in 1..Len(cc)}

\* the bit string p is a prefix of some code of the table
PrefixOfCode(h, p) == \E c \in CodeStrings(h) : IsPrefix(p, c)

\* the first n bits of source bits from position at on
BitsRead(bits, at, n) == SubSeq(bits, at + 1, at + n)

\* C12: on a tree produced by setup, getValue raises the bad-code error
\* exactly at the first bit after which the bits read are not a prefix of
\* any code of the table, never later: while it goes on, and before the last
\* bit of a finished lookup, the bits read are a prefix of a code; it ends
\* with the error if and only if the bits read up to the last one are not;
\* and the error carries those bits as the code value, with their number.
C12_EarliestBadCode ==
  (engine = "configured" /\ ValidTable) =>
    /\ \A t \in threads :
         pc[t] = "getValue" =>
           PrefixOfCode(nCodesPerLength,
                        BitsRead(bs[t].bits, start[t], bs[t].pos - start[t]))
    /\ \A f \in Finished :
         f.r.kind \notin {"eof", "wrongmode"} =>
           LET n == f.r.code_len
           IN /\ \A m \in 0..(n - 1) :
                   PrefixOfCode(nCodesPerLength, BitsRead(f.bits, f.r.start, m))
              /\ (f.r.kind = "badcode") <=>
                   ~PrefixOfCode(nCodesPerLength, BitsRead(f.bits, f.r.start, n))
              /\ f.r.kind = "badcode" =>
                   /\ f.r.code = BitsValue(f.bits, f.r.start, n)
                   /\ f.r.pos = f.r.start + n

\* the table with the single code 00, whose tree lost the leafless branch 1
\* to pruning: a stream starting 1 has raised the error at its first bit,
\* reporting code 1 of length 1
C12_Witness ==
  /\ engine = "configured" /\ nCodesPerLength = <<0, 0, 1>> /\ ValidTable
  /\ \E f \in Finished :
       /\ f.r.kind = "badcode" /\ f.r.code = 1 /\ f.r.code_len = 1
       /\ BitsRead(f.bits, f.r.start, 1) = <<1>>

====
